---- MODULE Spec2Model ----
(***************************************************************************)
(* The plan / execute / reflect loop of agent/graph.py (AgentGraph), with  *)
(* the tool wrappers of agent/tools.py it dispatches to.                   *)
(*                                                                         *)
(* Around them: the webhook endpoint of agent/main.py with the memory      *)
(* store of agent/memory.py, and the tool server (mcp_server/server.py)    *)
(* with its filesystem tools.                                              *)
(*                                                                         *)
(* Except under WebhookSpec, where every webhook call begins a run, one    *)
(* behaviour is one call of AgentGraph.run().  The Completion Client       *)
(* (self.llm.ainvoke) and the tool-execution service (the HTTP server      *)
(* behind MCPClient.call_tool) are the environment: every answer either    *)
(* of them can give is drawn from a small set.                             *)
(*                                                                         *)
(* Text the code inspects character by character (plan lines, the          *)
(* reflection answer) is a sequence of one-character strings; text the     *)
(* code only builds or passes on is a TLA+ string.  A Python dict is a     *)
(* record, a Python list a sequence.                                       *)
(***************************************************************************)
EXTENDS Integers, Sequences, FiniteSets, TLC

VARIABLES
    messages,       \* AgentState.messages      (reducer operator.add)
    plan,           \* AgentState.plan          (overwritten)
    tool_results,   \* AgentState.tool_results  (reducer operator.add)
    iteration,      \* AgentState.iteration     (overwritten)
    finished,       \* AgentState.finished      (overwritten)
    node,           \* the graph node that runs next: "plan", "execute", "reflect" or "END"
    output,         \* the value run() returned, NotReturned while graph.ainvoke runs
    llm_response,   \* the last answer of the Completion Client and the node that asked
    calls,          \* the requests the tool-execution service received, with its replies
    suspended,      \* a second run of the same AgentGraph, waiting at an await
    memory,         \* MemoryStore.memory, the dict behind facts and context
    memory_file,    \* the file at MemoryStore.json_path
    history,        \* the rows of the conversation_history table, oldest first
    returned,       \* the AgentResponses handle_webhook returned, oldest first
    trigger,        \* the webhook whose run is executing, NoTrigger if none
    waiting,        \* the webhook whose run is suspended, NoTrigger if none
    disk,           \* the tool server's filesystem: directories and files
    fs_call         \* the last call of a FilesystemTools method and what it touched

\* the memory store and what the webhook handler returned
front == <<memory, memory_file, history, returned>>

\* the webhook calls in progress
handlers == <<trigger, waiting>>

\* the tool server's side
backend == <<disk, fs_call>>

vars == <<messages, plan, tool_results, iteration, finished, node, output,
          llm_response, calls, suspended, front, handlers, backend>>

(***************************************************************************)
(* Bounds of the model.                                                    *)
(***************************************************************************)
\* The longest numbered list the Completion Client returns under Spec.
MaxPlanLen == 3
\* The length of the numbered list the Completion Client returns under
\* CapSpec and ScenarioSpec (longer than max_iterations).
LongPlanLen == 15
\* messages and tool_results stop growing at these lengths, which no run of
\* the program reaches (a run plans and executes at most max_iterations times).
MsgCap == 14
ResultCap == 14
\* Under ParseSpec the Completion Client returns lists of up to MaxLines
\* numbered lines, the first numbered 1..MaxFirstOrdinal, the numbering
\* either the same on every line, restarting after RestartPeriod lines, or
\* running on.
MaxLines == 20
MaxFirstOrdinal == 2
RestartPeriod == 10
\* Under FilterSpec the Completion Client returns every text of up to
\* MaxMixedLines lines taken from MixedLines.
MaxMixedLines == 3
\* Under MemorySpec the list of facts grows to at most MaxFacts entries.
MaxFacts == 3
\* Under WebhookSpec the agent receives at most MaxWebhooks webhook calls.
MaxWebhooks == 2

(***************************************************************************)
(* Program constants.                                                      *)
(***************************************************************************)
\* max_iterations = 10 in _reflect_node
max_iterations == 10
\* range(1, 20) in _plan_node: the ordinals 1 .. ordinal_stop - 1
ordinal_stop == 20

(***************************************************************************)
(* Python values.                                                          *)
(***************************************************************************)
\* str(None), as an f-string formats a missing tool name
PyNone == "None"

\* d.get(k, default)
DictGet(d, k, default) == IF k \in DOMAIN d THEN d[k] ELSE default

(***************************************************************************)
(* str methods, on sequences of characters.                                *)
(***************************************************************************)
Whitespace == {" ", "\t", "\r", "\n"}

RECURSIVE lstrip(_)
lstrip(s) == IF s # <<>> /\ Head(s) \in Whitespace THEN lstrip(Tail(s)) ELSE s

RECURSIVE rstrip(_)
rstrip(s) ==
    IF s # <<>> /\ s[Len(s)] \in Whitespace
    THEN rstrip(SubSeq(s, 1, Len(s) - 1))
    ELSE s

strip(s) == rstrip(lstrip(s))

startswith(s, prefix) ==
    /\ Len(s) >= Len(prefix)
    /\ SubSeq(s, 1, Len(prefix)) = prefix

\* sub in s
contains(s, sub) ==
    \E i \in 0..(Len(s) - Len(sub)) : SubSeq(s, i + 1, i + Len(sub)) = sub

LowerLetters ==
    <<"a", "b", "c", "d", "e", "f", "g", "h", "i", "j", "k", "l", "m",
      "n", "o", "p", "q", "r", "s", "t", "u", "v", "w", "x", "y", "z">>

UpperLetters ==
    <<"A", "B", "C", "D", "E", "F", "G", "H", "I", "J", "K", "L", "M",
      "N", "O", "P", "Q", "R", "S", "T", "U", "V", "W", "X", "Y", "Z">>

upper_char(c) ==
    IF \E i \in 1..Len(LowerLetters) : LowerLetters[i] = c
    THEN UpperLetters[CHOOSE i \in 1..Len(LowerLetters) : LowerLetters[i] = c]
    ELSE c

upper(s) == [i \in 1..Len(s) |-> upper_char(s[i])]

Digits == <<"0", "1", "2", "3", "4", "5", "6", "7", "8", "9">>

\* f"{i}" for 0 <= i <= 99
str_int(i) ==
    IF i < 10
    THEN <<Digits[i + 1]>>
    ELSE <<Digits[(i \div 10) + 1], Digits[(i % 10) + 1]>>

(***************************************************************************)
(* Results of Python calls: a value, or an exception with its str().       *)
(***************************************************************************)
Raised(msg) == [raised |-> TRUE, exc |-> msg, requests |-> <<>>]

Returned(v, reqs) == [raised |-> FALSE, value |-> v, requests |-> reqs]

(***************************************************************************)
(* agent/tools.py: MCPClient and the tool wrappers.                        *)
(* A reply of the tool-execution service is [raises |-> TRUE, exc |-> e]   *)
(* when the POST, raise_for_status() or response.json() raises, and        *)
(* [raises |-> FALSE, body |-> dict] otherwise.                            *)
(***************************************************************************)
\* call_tool, returning an empty dict when the request raises
call_tool_swallows(tool_name, parameters, reply) ==
    IF reply.raises THEN [k \in {} |-> ""] ELSE reply.body

\* MCPClient.call_tool: the dict it returns
call_tool(tool_name, parameters, reply) ==
    IF reply.raises THEN [error |-> reply.exc] ELSE reply.body

\* one request as the tool-execution service sees it
Request(tool_name, parameters, reply) ==
    <<[tool |-> tool_name, parameters |-> parameters, reply |-> reply]>>

\* Python's binding of **parameters to a wrapper's signature
\* (mcp_client positional, the named parameters required, the rest **kwargs)
binds(required, parameters) ==
    /\ "mcp_client" \notin DOMAIN parameters
    /\ required \subseteq DOMAIN parameters

TypeErrorText == "TypeError: missing or duplicate argument"

\* docker_list_containers, reporting the containers without their number
docker_list_containers_uncounted(parameters, reply) ==
    IF ~binds({}, parameters) THEN Raised(TypeErrorText)
    ELSE
        LET result == call_tool("docker_list", parameters, reply)
            containers == DictGet(result, "containers", <<>>)
        IN  Returned(
                IF "error" \in DOMAIN result
                THEN "Error: " \o result.error
                ELSE "Found containers: " \o ToString(containers),
                Request("docker_list", parameters, reply))

\* docker_list_containers, posting to a tool name of the docker CLI
docker_list_containers_posts_ps(parameters, reply) ==
    IF ~binds({}, parameters) THEN Raised(TypeErrorText)
    ELSE
        LET result == call_tool("docker_ps", parameters, reply)
            containers == DictGet(result, "containers", <<>>)
        IN  Returned(
                IF "error" \in DOMAIN result
                THEN "Error: " \o result.error
                ELSE "Found " \o ToString(Len(containers)) \o " containers: "
                        \o ToString(containers),
                Request("docker_ps", parameters, reply))

docker_list_containers(parameters, reply) ==
    IF ~binds({}, parameters) THEN Raised(TypeErrorText)
    ELSE
        LET result == call_tool("docker_list", parameters, reply)
            containers == DictGet(result, "containers", <<>>)
        IN  Returned(
                IF "error" \in DOMAIN result
                THEN "Error: " \o result.error
                ELSE "Found " \o ToString(Len(containers)) \o " containers: "
                        \o ToString(containers),
                Request("docker_list", parameters, reply))

docker_exec_command(parameters, reply) ==
    IF ~binds({"container_id", "command"}, parameters) THEN Raised(TypeErrorText)
    ELSE
        LET sent == [container_id |-> parameters.container_id,
                     command |-> parameters.command]
            result == call_tool("docker_exec", sent, reply)
        IN  Returned(
                IF "error" \in DOMAIN result
                THEN "Error: " \o result.error
                ELSE "Command output: " \o DictGet(result, "output", ""),
                Request("docker_exec", sent, reply))

filesystem_read(parameters, reply) ==
    IF ~binds({"path"}, parameters) THEN Raised(TypeErrorText)
    ELSE
        LET sent == [path |-> parameters.path]
            result == call_tool("filesystem_read", sent, reply)
        IN  Returned(
                IF "error" \in DOMAIN result
                THEN "Error: " \o result.error
                ELSE "File contents: " \o DictGet(result, "content", ""),
                Request("filesystem_read", sent, reply))

filesystem_write(parameters, reply) ==
    IF ~binds({"path", "content"}, parameters) THEN Raised(TypeErrorText)
    ELSE
        LET sent == [path |-> parameters.path, content |-> parameters.content]
            result == call_tool("filesystem_write", sent, reply)
        IN  Returned(
                IF "error" \in DOMAIN result
                THEN "Error: " \o result.error
                ELSE "Successfully wrote to " \o parameters.path,
                Request("filesystem_write", sent, reply))

\* filesystem_list, reporting the files when the response carries them
filesystem_list_prefers_files(parameters, reply) ==
    IF ~binds({"path"}, parameters) THEN Raised(TypeErrorText)
    ELSE
        LET sent == [path |-> parameters.path]
            result == call_tool("filesystem_list", sent, reply)
            files == DictGet(result, "files", <<>>)
        IN  Returned(
                IF "error" \in DOMAIN result /\ "files" \notin DOMAIN result
                THEN "Error: " \o result.error
                ELSE "Found " \o ToString(Len(files)) \o " items: " \o ToString(files),
                Request("filesystem_list", sent, reply))

filesystem_list(parameters, reply) ==
    IF ~binds({"path"}, parameters) THEN Raised(TypeErrorText)
    ELSE
        LET sent == [path |-> parameters.path]
            result == call_tool("filesystem_list", sent, reply)
            files == DictGet(result, "files", <<>>)
        IN  Returned(
                IF "error" \in DOMAIN result
                THEN "Error: " \o result.error
                ELSE "Found " \o ToString(Len(files)) \o " items: " \o ToString(files),
                Request("filesystem_list", sent, reply))

\* the keys of the tool registry
AVAILABLE_TOOLS ==
    {"docker_list_containers", "docker_exec_command", "filesystem_read",
     "filesystem_write", "filesystem_list"}

\* AVAILABLE_TOOLS[tool_name]['function'](mcp_client, **parameters)
tool_func(tool_name, parameters, reply) ==
    CASE tool_name = "docker_list_containers" -> docker_list_containers(parameters, reply)
      [] tool_name = "docker_exec_command" -> docker_exec_command(parameters, reply)
      [] tool_name = "filesystem_read" -> filesystem_read(parameters, reply)
      [] tool_name = "filesystem_write" -> filesystem_write(parameters, reply)
      [] tool_name = "filesystem_list" -> filesystem_list(parameters, reply)

(***************************************************************************)
(* agent/graph.py: the three nodes.  Each returns the partial state the    *)
(* Python function returns (`update`), whether it called the Completion    *)
(* Client (`asked`) and the requests it sent to the tool service.          *)
(* A Completion Client answer is [ok |-> FALSE, exc |-> e] when ainvoke    *)
(* raises and [ok |-> TRUE, content |-> c] otherwise.                      *)
(***************************************************************************)
Step(update, asked, requests) ==
    [update |-> update, asked |-> asked, requests |-> requests]

EmptyDict == [k \in {} |-> ""]

ErrorInPlanning ==
    <<"E", "r", "r", "o", "r", " ", "i", "n", " ",
      "p", "l", "a", "n", "n", "i", "n", "g">>

\* has_ordinal, accepting every ordinal of one or two digits
has_ordinal_any(stripped) ==
    \E i \in 1..99 : startswith(stripped, str_int(i) \o <<".">>)

\* any(line.strip().startswith(f"{i}.") for i in range(1, 20))
has_ordinal(stripped) ==
    \E i \in 1..(ordinal_stop - 1) : startswith(stripped, str_int(i) \o <<".">>)

\* plan_steps, keeping the lines as they came
plan_steps_unstripped(lines) ==
    SelectSeq(lines, LAMBDA l : strip(l) # <<>> /\ has_ordinal(strip(l)))

\* the list comprehension over plan_text.split('\n'); `lines` is that split
plan_steps(lines) ==
    LET stripped == [i \in 1..Len(lines) |-> strip(lines[i])]
    IN  SelectSeq(stripped, LAMBDA l : l # <<>> /\ has_ordinal(l))

\* plan_node, falling back to an empty plan
plan_node_empty_fallback(resp) ==
    IF resp.ok
    THEN Step([plan |-> plan_steps(resp.content),
               messages |-> <<[role |-> "assistant"]>>],
              TRUE, <<>>)
    ELSE Step([plan |-> <<>>,
               messages |-> <<[role |-> "assistant"]>>],
              TRUE, <<>>)

\* plan_node, starting the new plan from its first step
plan_node_resets_cursor(resp) ==
    IF resp.ok
    THEN Step([plan |-> plan_steps(resp.content), iteration |-> 0,
               messages |-> <<[role |-> "assistant"]>>],
              TRUE, <<>>)
    ELSE Step([plan |-> <<ErrorInPlanning>>, iteration |-> 0,
               messages |-> <<[role |-> "assistant"]>>],
              TRUE, <<>>)

\* The content of a message is left out: no node reads it.
plan_node(resp) ==
    IF resp.ok
    THEN Step([plan |-> plan_steps(resp.content),
               messages |-> <<[role |-> "assistant"]>>],
              TRUE, <<>>)
    ELSE Step([plan |-> <<ErrorInPlanning>>,
               messages |-> <<[role |-> "assistant"]>>],
              TRUE, <<>>)

\* no_plan, setting finished and recording nothing
no_plan_finishes == [finished |-> TRUE]

\* the empty-plan return of _execute_node
no_plan == [tool_results |-> <<[error |-> "No plan available"]>>]

\* tool_executed, forgetting to advance the cursor
tool_executed_no_advance(current_step, tool_name, result) ==
    [tool_results |-> <<[step |-> current_step, tool |-> tool_name, result |-> result]>>]

\* tool_executed, copying the tool's text into an error field as well
tool_executed_with_error(current_step, tool_name, result) ==
    [tool_results |-> <<[step |-> current_step, tool |-> tool_name,
                         result |-> result, error |-> result]>>,
     iteration |-> iteration + 1]

\* the return of the tool branch of _execute_node
tool_executed(current_step, tool_name, result) ==
    [tool_results |-> <<[step |-> current_step, tool |-> tool_name, result |-> result]>>,
     iteration |-> iteration + 1]

\* unknown_tool, forgetting to advance the cursor
unknown_tool_no_advance(current_step, tool_name) ==
    [tool_results |-> <<[step |-> current_step,
                         error |-> "Unknown tool: " \o tool_name]>>]

\* the return of the else branch of _execute_node
unknown_tool(current_step, tool_name) ==
    [tool_results |-> <<[step |-> current_step,
                         error |-> "Unknown tool: " \o tool_name]>>,
     iteration |-> iteration + 1]

\* execution_error, logging the exception without recording a result
execution_error_not_recorded(current_step, e) ==
    [iteration |-> iteration + 1]

\* execution_error, recording the error without advancing the cursor
execution_error_no_advance(current_step, e) ==
    [tool_results |-> <<[step |-> current_step, error |-> e]>>]

\* the return of the except branch of _execute_node
execution_error(current_step, e) ==
    [tool_results |-> <<[step |-> current_step, error |-> e]>>,
     iteration |-> iteration + 1]

\* The content of a tool-choice answer is [json |-> FALSE] when json.loads
\* raises, [json |-> TRUE, object |-> FALSE] when it yields a value that is
\* no dict, and [json |-> TRUE, object |-> TRUE, value |-> dict] otherwise.
execute_node(resp, reply) ==
    IF plan = <<>> THEN Step(no_plan, FALSE, <<>>)
    ELSE IF iteration >= Len(plan) THEN Step([finished |-> TRUE], FALSE, <<>>)
    ELSE
        LET current_step == plan[iteration + 1]
        IN  IF ~resp.ok
            THEN Step(execution_error(current_step, resp.exc), TRUE, <<>>)
            ELSE IF ~resp.content.json
            THEN Step(execution_error(current_step, "JSONDecodeError"), TRUE, <<>>)
            ELSE IF ~resp.content.object
            THEN Step(execution_error(current_step, "AttributeError: get"), TRUE, <<>>)
            ELSE
                LET tool_decision == resp.content.value
                    tool_name == DictGet(tool_decision, "tool", PyNone)
                    parameters == DictGet(tool_decision, "parameters", EmptyDict)
                IN  IF tool_name \in AVAILABLE_TOOLS
                    THEN
                        LET call == tool_func(tool_name, parameters, reply)
                        IN  IF call.raised
                            THEN Step(execution_error(current_step, call.exc),
                                      TRUE, call.requests)
                            ELSE Step(tool_executed(current_step, tool_name, call.value),
                                      TRUE, call.requests)
                    ELSE Step(unknown_tool(current_step, tool_name), TRUE, <<>>)

DONE == <<"D", "O", "N", "E">>

\* reflect_stops without the max_iterations test
reflect_stops_no_cap ==
    iteration >= Len(plan)

\* reflect_stops with > for >= in the plan-length test
reflect_stops_off_by_one ==
    iteration > Len(plan) \/ iteration >= max_iterations

\* reflect_stops with > for >= in the max_iterations test
reflect_stops_cap_off_by_one ==
    iteration >= Len(plan) \/ iteration > max_iterations

\* reflect_stops with "and" for "or"
reflect_stops_both ==
    iteration >= Len(plan) /\ iteration >= max_iterations

\* the unconditional stop of _reflect_node
reflect_stops ==
    iteration >= Len(plan) \/ iteration >= max_iterations

\* reflect_decision, continuing only on an explicit CONTINUE
reflect_decision_fail_safe(content) ==
    LET decision == upper(strip(content))
    IN  IF contains(decision, <<"C", "O", "N", "T", "I", "N", "U", "E">>)
           /\ ~contains(decision, <<"D", "O", "N", "E">>)
        THEN [finished |-> FALSE]
        ELSE [finished |-> TRUE]

\* reflect_decision, finishing only on the answer DONE itself
reflect_decision_whole_answer(content) ==
    LET decision == upper(strip(content))
    IN  IF decision = DONE THEN [finished |-> TRUE] ELSE [finished |-> FALSE]

\* the decision of _reflect_node on an answer of the Completion Client
reflect_decision(content) ==
    LET decision == upper(strip(content))
    IN  IF contains(decision, DONE) THEN [finished |-> TRUE] ELSE [finished |-> FALSE]

\* reflect_node, continuing the run when the Completion Client fails
reflect_node_continues_on_failure(resp) ==
    IF reflect_stops THEN Step([finished |-> TRUE], FALSE, <<>>)
    ELSE IF resp.ok THEN Step(reflect_decision(resp.content), TRUE, <<>>)
    ELSE Step([finished |-> FALSE], TRUE, <<>>)

\* reflect_node without the unconditional stop
reflect_node_always_asks(resp) ==
    IF resp.ok THEN Step(reflect_decision(resp.content), TRUE, <<>>)
    ELSE Step([finished |-> TRUE], TRUE, <<>>)

reflect_node(resp) ==
    IF reflect_stops THEN Step([finished |-> TRUE], FALSE, <<>>)
    ELSE IF resp.ok THEN Step(reflect_decision(resp.content), TRUE, <<>>)
    ELSE Step([finished |-> TRUE], TRUE, <<>>)

\* _should_continue on the merged state
should_continue(state_finished) == IF state_finished THEN "end" ELSE "continue"

\* the mapping of add_conditional_edges("reflect", ...)
conditional_edge(key) == IF key = "continue" THEN "plan" ELSE "END"

(***************************************************************************)
(* The environment: what the Completion Client and the tool service answer.*)
(***************************************************************************)
LLMError == [ok |-> FALSE, exc |-> "ReadTimeout"]

Text(c) == [ok |-> TRUE, content |-> c]

Object(d) == Text([json |-> TRUE, object |-> TRUE, value |-> d])

\* " <i>. do", an indented numbered line
StepLine(i) == <<" ">> \o str_int(i) \o <<".", " ", "d", "o">>

\* a heading, n numbered lines and a blank line
PlanText(n) ==
    <<<<"P", "l", "a", "n", ":">>>> \o [i \in 1..n |-> StepLine(i)] \o << <<" ">> >>

PlanResponses == {LLMError} \cup {Text(PlanText(n)) : n \in 0..MaxPlanLen}

CapPlanResponses == {LLMError, Text(PlanText(0)), Text(PlanText(LongPlanLen))}

ScenarioPlanResponses == {Text(PlanText(LongPlanLen))}

\* "1. List docker containers"
ListStep ==
    <<"1", ".", " ", "L", "i", "s", "t", " ", "d", "o", "c", "k", "e", "r", " ", "c", "o", "n", "t", "a", "i", "n", "e", "r", "s">>

\* the one-step plan alone, the same inside a heading and blank lines, and
\* other answers
ListPlanResponses ==
    {LLMError,
     Text(<<ListStep>>),
     Text(<<<<"P", "l", "a", "n", ":">>, <<>>, <<" ", " ">> \o ListStep \o <<" ">>, <<>>>>),
     Text(PlanText(2))}

\* lines with and without an accepted ordinal: a heading, an empty and a
\* blank line, ordinals 1 and 19, ordinals 20 and 0, a parenthesis for the
\* dot, a bullet before the ordinal, a decimal, tab and carriage return
\* around the line, a space before the dot
MixedLines ==
    {<<"P", "l", "a", "n", ":">>,
     <<>>,
     <<" ">>,
     <<" ", "1", ".", " ", "a">>,
     <<"1", "9", ".", " ", "b", " ">>,
     <<"2", "0", ".", " ", "c">>,
     <<"0", ".", " ", "d">>,
     <<"2", ")", " ", "e">>,
     <<"-", " ", "3", ".", " ", "f">>,
     <<"1", ".", "5", " ", "g">>,
     <<"\t", "7", ".", "h", "\r">>,
     <<"1", "0", " ", ".", " ", "i">>}

MixedPlanResponses ==
    {Text(lines) : lines \in UNION {[1..n -> MixedLines] : n \in 0..MaxMixedLines}}

\* n lines numbered from `first`, the numbering restarting every `period` lines
NumberedText(first, period, n) ==
    [j \in 1..n |-> StepLine(first + ((j - 1) % period))]

NumberedPlanResponses ==
    {LLMError} \cup
    {Text(NumberedText(first, period, n)) :
        first \in 1..MaxFirstOrdinal,
        period \in {1, RestartPeriod, MaxLines + 1},
        n \in 0..MaxLines}

\* The tool choices: a failed call, text that is not JSON, JSON that is no
\* object, an object without "tool", an unregistered tool, and registered
\* tools with and without their required parameters.  A "tool" that is no
\* string and "parameters" that is no object are left out: both end in the
\* except branch, like the missing parameter.
ToolChoices ==
    {LLMError,
     Text([json |-> FALSE]),
     Text([json |-> TRUE, object |-> FALSE]),
     Object(EmptyDict),
     Object([tool |-> "nonexistent_tool", parameters |-> EmptyDict]),
     Object([tool |-> "docker_list_containers", parameters |-> EmptyDict]),
     Object([tool |-> "filesystem_read", parameters |-> [path |-> "/data/a"]]),
     Object([tool |-> "filesystem_read"])}

CapToolChoices ==
    {Object([tool |-> "nonexistent_tool", parameters |-> EmptyDict]),
     Object([tool |-> "docker_list_containers", parameters |-> EmptyDict])}

ToolReplies ==
    {[raises |-> TRUE, exc |-> "ConnectError"],
     [raises |-> FALSE, body |-> [error |-> "not found"]],
     [raises |-> FALSE, body |-> [containers |-> <<"web", "db">>]]}

LoopToolChoices ==
    {Object([tool |-> "docker_list_containers", parameters |-> EmptyDict])}

CapToolReplies == {[raises |-> FALSE, body |-> [containers |-> <<"web", "db">>]]}

\* every registered tool, with its required parameters
DispatchToolChoices ==
    {Object([tool |-> "docker_list_containers", parameters |-> EmptyDict]),
     Object([tool |-> "docker_exec_command",
             parameters |-> [container_id |-> "web", command |-> "ls"]]),
     Object([tool |-> "filesystem_read", parameters |-> [path |-> "/data/a"]]),
     Object([tool |-> "filesystem_write",
             parameters |-> [path |-> "/data/a", content |-> "text"]]),
     Object([tool |-> "filesystem_list", parameters |-> [path |-> "/data"]])}

\* the request raising (no connection, timeout, HTTP status, a body that
\* is not JSON), bodies with an "error" key, alone and next to the keys of
\* a success, and bodies of a success
DispatchReplies ==
    {[raises |-> TRUE, exc |-> "ConnectError"],
     [raises |-> TRUE, exc |-> "ReadTimeout"],
     [raises |-> TRUE, exc |-> "HTTPStatusError: 500"],
     [raises |-> TRUE, exc |-> "JSONDecodeError"],
     [raises |-> FALSE, body |-> [error |-> "not found"]],
     [raises |-> FALSE,
      body |-> [error |-> "denied", containers |-> <<"web">>, output |-> "ok",
                content |-> "text", files |-> <<"a">>, success |-> "true"]],
     [raises |-> FALSE, body |-> [containers |-> <<"web", "db">>]],
     [raises |-> FALSE, body |-> [output |-> "ok"]],
     [raises |-> FALSE, body |-> [content |-> "text"]],
     [raises |-> FALSE, body |-> [files |-> <<"a">>]]}

CONTINUE == <<"C", "O", "N", "T", "I", "N", "U", "E">>

ReflectAnswers ==
    {LLMError,
     Text(CONTINUE),
     Text(DONE),
     Text(<<" ", "d", "o", "n", "e", ".", "\n">>),
     Text(<<"m", "a", "y", "b", "e">>),
     Text(<<>>)}

ScenarioReflectAnswers == {Text(CONTINUE)}

ParseReflectAnswers == {LLMError, Text(DONE)}

\* answers with "done" in other letter cases, inside a longer word and
\* next to CONTINUE, and answers without it
DecisionAnswers ==
    {LLMError,
     Text(CONTINUE),
     Text(<<"D", "o", "n", "e">>),
     Text(<<"u", "n", "d", "o", "n", "e">>),
     Text(<<"a", "b", "a", "n", "D", "O", "N", "E", "d">>),
     Text(CONTINUE \o <<",", " ", "n", "o", "t", " ", "d", "O", "n", "E">>),
     Text(<<"d", "o", " ", "n", "e", "x", "t">>)}

(***************************************************************************)
(* The run.                                                                *)
(***************************************************************************)
NotReturned == [status |-> "running"]

\* the state of the run that is executing
RunState ==
    [messages |-> messages, plan |-> plan, tool_results |-> tool_results,
     iteration |-> iteration, finished |-> finished, node |-> node,
     output |-> output, llm_response |-> llm_response, calls |-> calls]

(***************************************************************************)
(* The filesystem tools of the tool server (mcp_server/filesystem_tools.py).*)
(* A path string is a sequence of one-character strings; a pathlib.Path is  *)
(* the sequence of its parts below the root, each part such a sequence.     *)
(* The filesystem has directories and regular files and no symbolic links.  *)
(***************************************************************************)
\* the parts of a path string between its slashes, empty parts left out
RECURSIVE split_parts(_, _)
split_parts(s, current) ==
    LET ended == IF current = <<>> THEN <<>> ELSE <<current>>
    IN  IF s = <<>> THEN ended
        ELSE IF Head(s) = "/" THEN ended \o split_parts(Tail(s), <<>>)
        ELSE split_parts(Tail(s), Append(current, Head(s)))

RECURSIVE without_dots(_)
without_dots(ps) ==
    IF ps = <<>> THEN <<>>
    ELSE (IF Head(ps) = <<".">> THEN <<>> ELSE <<Head(ps)>>)
            \o without_dots(Tail(ps))

\* pathlib's parse of a path string: "." parts and repeated slashes vanish,
\* ".." parts stay
path_parts(s) == without_dots(split_parts(s, <<>>))

is_absolute(s) == s # <<>> /\ Head(s) = "/"

\* self.base_path / path: an absolute path replaces the base
joinpath(base, s) == IF is_absolute(s) THEN path_parts(s) ELSE base \o path_parts(s)

\* Path.resolve() where nothing is a symbolic link: each ".." takes the
\* part before it away, and the root is its own parent
RECURSIVE resolve(_, _)
resolve(done, rest) ==
    IF rest = <<>> THEN done
    ELSE IF Head(rest) = <<".", ".">>
         THEN resolve(IF done = <<>> THEN <<>>
                      ELSE SubSeq(done, 1, Len(done) - 1), Tail(rest))
         ELSE resolve(Append(done, Head(rest)), Tail(rest))

\* str(path) of an absolute path
RECURSIVE joined(_)
joined(ps) == IF ps = <<>> THEN <<>> ELSE <<"/">> \o Head(ps) \o joined(Tail(ps))

str_path(ps) == IF ps = <<>> THEN <<"/">> ELSE joined(ps)

\* FilesystemTools(base_path="/app/data")
base_path == <<<<"a", "p", "p">>, <<"d", "a", "t", "a">>>>

ValueErrorText == "Path is outside allowed directory"

\* what _resolve_path would hand back if it did not check
resolved_path(path) == resolve(<<>>, joinpath(base_path, path))

\* _resolve_path
resolve_path(path) ==
    LET resolved == resolved_path(path)
    IN  IF ~startswith(str_path(resolved), str_path(base_path))
        THEN [raises |-> TRUE, exc |-> ValueErrorText]
        ELSE [raises |-> FALSE, path |-> resolved]

\* Path.exists(), Path.is_file(), Path.is_dir() on the filesystem d
path_exists(d, p) == p \in d.dirs \/ p \in DOMAIN d.files
is_file(d, p) == p \in DOMAIN d.files
is_dir(d, p) == p \in d.dirs

\* the directories above p, the root included
parents(p) == {SubSeq(p, 1, n) : n \in 0..(Len(p) - 1)}

\* what a method did: its return value, the filesystem it left, and the
\* paths it looked at or changed
Outcome(result, d, touched) == [result |-> result, disk |-> d, touched |-> touched]

\* the except branches: {"error": str(e)}, nothing done
Refused(d, text) == Outcome([error |-> text], d, {})

read_file(d, path) ==
    LET r == resolve_path(path)
    IN  IF r.raises THEN Refused(d, r.exc)
        ELSE IF ~path_exists(d, r.path)
             THEN Outcome([error |-> "File not found"], d, {r.path})
        ELSE IF ~is_file(d, r.path)
             THEN Outcome([error |-> "Not a file"], d, {r.path})
        ELSE Outcome([content |-> d.files[r.path], path |-> r.path], d, {r.path})

\* write_file with create_dirs = True, as the server calls it
write_file(d, path, content) ==
    LET r == resolve_path(path)
    IN  IF r.raises THEN Refused(d, r.exc)
        ELSE IF r.path = <<>> \/ \E a \in parents(r.path) : is_file(d, a)
             THEN Outcome([error |-> "NotADirectoryError"], d, {r.path})
        ELSE LET made == [d EXCEPT !.dirs = @ \cup parents(r.path)]
                 new == parents(r.path) \ d.dirs
             IN  IF is_dir(made, r.path)
                 THEN Outcome([error |-> "IsADirectoryError"], made,
                              {r.path} \cup new)
                 ELSE Outcome([success |-> TRUE, path |-> r.path],
                              [made EXCEPT !.files =
                                  [p \in DOMAIN @ \cup {r.path} |->
                                      IF p = r.path THEN content ELSE @[p]]],
                              {r.path} \cup new)

list_directory(d, path) ==
    LET r == resolve_path(path)
    IN  IF r.raises THEN Refused(d, r.exc)
        ELSE IF ~path_exists(d, r.path)
             THEN Outcome([error |-> "Directory not found"], d, {r.path})
        ELSE IF ~is_dir(d, r.path)
             THEN Outcome([error |-> "Not a directory"], d, {r.path})
        ELSE LET items == {p \in d.dirs \cup DOMAIN d.files :
                              Len(p) = Len(r.path) + 1
                              /\ SubSeq(p, 1, Len(r.path)) = r.path}
             IN  Outcome([files |-> {p[Len(p)] : p \in items}, path |-> r.path],
                         d, {r.path} \cup items)

delete_file(d, path) ==
    LET r == resolve_path(path)
    IN  IF r.raises THEN Refused(d, r.exc)
        ELSE IF ~path_exists(d, r.path)
             THEN Outcome([error |-> "File not found"], d, {r.path})
        ELSE IF ~is_file(d, r.path)
             THEN Outcome([error |-> "Not a file"], d, {r.path})
        ELSE Outcome([success |-> TRUE, path |-> r.path],
                     [d EXCEPT !.files = [p \in DOMAIN @ \ {r.path} |-> @[p]]],
                     {r.path})

file_exists(d, path) ==
    LET r == resolve_path(path)
    IN  IF r.raises THEN Refused(d, r.exc)
        ELSE Outcome([exists |-> path_exists(d, r.path), path |-> r.path,
                      is_file |-> is_file(d, r.path),
                      is_directory |-> is_dir(d, r.path)],
                     d, {r.path})

\* the filesystem the tool server starts on: the base directory with one
\* file, a directory next to it whose name begins with the base's name,
\* and /etc/passwd
DiskInit ==
    [dirs |-> {<<>>, <<<<"a", "p", "p">>>>, <<<<"a", "p", "p">>, <<"d", "a", "t", "a">>>>, <<<<"a", "p", "p">>, <<"d", "a", "t", "a", "2">>>>, <<<<"e", "t", "c">>>>},
     files |-> [p \in {<<<<"a", "p", "p">>, <<"d", "a", "t", "a">>, <<"a", ".", "t", "x", "t">>>>, <<<<"a", "p", "p">>, <<"d", "a", "t", "a", "2">>, <<"b", ".", "t", "x", "t">>>>, <<<<"e", "t", "c">>, <<"p", "a", "s", "s", "w", "d">>>>} |->
                   IF p = <<<<"a", "p", "p">>, <<"d", "a", "t", "a">>, <<"a", ".", "t", "x", "t">>>> THEN "A" ELSE IF p = <<<<"a", "p", "p">>, <<"d", "a", "t", "a", "2">>, <<"b", ".", "t", "x", "t">>>> THEN "B" ELSE "root"]]

\* no method of FilesystemTools has been called
NoCall == [method |-> "none", touched |-> {}]

\* the path strings a caller sends: inside the base directory, the base
\* itself, and ways out of it by "..", by an absolute path and into the
\* directory next to it
PathStrings ==
    {<<"a", ".", "t", "x", "t">>,
     <<"n", "e", "w", ".", "t", "x", "t">>,
     <<"s", "u", "b", "/", "c", ".", "t", "x", "t">>,
     <<".">>,
     <<>>,
     <<".", ".">>,
     <<"s", "u", "b", "/", ".", ".", "/", "a", ".", "t", "x", "t">>,
     <<"/", "a", "p", "p", "/", "d", "a", "t", "a", "/", "a", ".", "t", "x", "t">>,
     <<".", ".", "/", "d", "a", "t", "a", "2", "/", "b", ".", "t", "x", "t">>,
     <<".", ".", "/", "d", "a", "t", "a", "2", "/", "n", "e", "w", ".", "t", "x", "t">>,
     <<"/", "e", "t", "c", "/", "p", "a", "s", "s", "w", "d">>,
     <<".", ".", "/", ".", ".", "/", "e", "t", "c", "/", "p", "a", "s", "s", "w", "d">>,
     <<"/", "a", "p", "p", "/", "d", "a", "t", "a", "2">>}

\* the texts a caller writes
Contents == {"x", "y"}

\* no webhook call is in progress
NoTrigger == [trigger_id |-> "none"]

\* {"facts": [], "preferences": {}, "context": {}} of _load_json_memory
EmptyMemory == [facts |-> <<>>, preferences |-> EmptyDict, context |-> EmptyDict]

\* os.path.exists(json_path) is false
NoFile == [exists |-> FALSE]

\* MemoryStore.__init__ on a new data directory: an empty table, no file
StoreInit ==
    /\ memory = EmptyMemory
    /\ memory_file = NoFile
    /\ history = <<>>
    /\ returned = <<>>

\* Python's == between a str and a dict: objects of different types that
\* define no common comparison are unequal
str_eq_dict(text, dict) == FALSE

\* fact in self.memory.get("facts", []): the list holds the dicts that
\* add_fact appended, and `in` compares fact with each of them by ==
fact_in(fact, facts) == \E i \in 1..Len(facts) : str_eq_dict(fact, facts[i])

\* add_fact on the memory dict m at the instant now; saved tells whether
\* it went on to _save_json_memory
add_fact(m, fact, now) ==
    IF ~fact_in(fact, m.facts)
    THEN [memory |-> [m EXCEPT !.facts =
                         Append(@, [content |-> fact, timestamp |-> now])],
          saved |-> TRUE]
    ELSE [memory |-> m, saved |-> FALSE]

\* [f["content"] for f in self.memory.get("facts", [])]
get_facts(m) == [i \in 1..Len(m.facts) |-> m.facts[i].content]

\* self.memory.setdefault("context", {})[key] = value
update_context(m, key, value) ==
    [m EXCEPT !.context =
        [k \in DOMAIN @ \cup {key} |-> IF k = key THEN value ELSE @[k]]]

\* self.memory.get("context", {})
get_context(m) == m.context

\* _save_json_memory of the memory dict m: the file holds m, or what it
\* held if open() or json.dump raised (the exception is logged and dropped)
save_json_memory(m, file, written) ==
    IF written THEN [exists |-> TRUE, content |-> m] ELSE file

\* initial_state of run(), at the graph's entry point, in a process that
\* has just started: the memory store and the tool server as constructed
Init ==
    /\ messages = <<[role |-> "user"]>>
    /\ plan = <<>>
    /\ tool_results = <<>>
    /\ iteration = 0
    /\ finished = FALSE
    /\ node = "plan"
    /\ output = NotReturned
    /\ llm_response = [prompt |-> "none"]
    /\ calls = <<>>
    /\ suspended = RunState
    /\ StoreInit
    /\ trigger = NoTrigger
    /\ waiting = NoTrigger
    /\ disk = DiskInit
    /\ fs_call = NoCall

\* Apply, with tool_results overwritten like a field without reducer
Apply_overwrites_results(update) ==
    /\ messages' = IF "messages" \in DOMAIN update /\ Len(messages) < MsgCap
                   THEN messages \o update.messages
                   ELSE messages
    /\ plan' = DictGet(update, "plan", plan)
    /\ tool_results' = DictGet(update, "tool_results", tool_results)
    /\ iteration' = DictGet(update, "iteration", iteration)
    /\ finished' = DictGet(update, "finished", finished)

\* LangGraph's merge of a node's return value into the state, by the
\* reducers AgentState declares
Apply(update) ==
    /\ messages' = IF "messages" \in DOMAIN update /\ Len(messages) < MsgCap
                   THEN messages \o update.messages
                   ELSE messages
    /\ plan' = DictGet(update, "plan", plan)
    /\ tool_results' = IF "tool_results" \in DOMAIN update
                          /\ Len(tool_results) < ResultCap
                       THEN tool_results \o update.tool_results
                       ELSE tool_results
    /\ iteration' = DictGet(update, "iteration", iteration)
    /\ finished' = DictGet(update, "finished", finished)

\* what a node leaves behind in the environment
Environment(prompt, resp, step) ==
    /\ llm_response' = IF step.asked
                       THEN [prompt |-> prompt, response |-> resp]
                       ELSE llm_response
    /\ calls' = calls \o step.requests

PlanNode(responses) ==
    /\ node = "plan"
    /\ output = NotReturned
    /\ \E resp \in responses :
         LET step == plan_node(resp)
         IN  Apply(step.update) /\ Environment("plan", resp, step)
    /\ node' = "execute"
    /\ UNCHANGED <<output, suspended, front, handlers, backend>>

ExecuteNode(choices, replies) ==
    /\ node = "execute"
    /\ output = NotReturned
    /\ \E resp \in choices, reply \in replies :
         LET step == execute_node(resp, reply)
         IN  Apply(step.update) /\ Environment("execute", resp, step)
    /\ node' = "reflect"
    /\ UNCHANGED <<output, suspended, front, handlers, backend>>

ReflectNode(answers) ==
    /\ node = "reflect"
    /\ output = NotReturned
    /\ \E resp \in answers :
         LET step == reflect_node(resp)
         IN  Apply(step.update) /\ Environment("reflect", resp, step)
    /\ node' = conditional_edge(should_continue(finished'))
    /\ UNCHANGED <<output, suspended, front, handlers, backend>>

\* run(): graph.ainvoke returned the final state
RunReturns ==
    /\ node = "END"
    /\ output = NotReturned
    /\ output' = [status |-> "success", results |-> tool_results,
                  plan |-> plan, messages |-> messages]
    /\ UNCHANGED <<messages, plan, tool_results, iteration, finished, node,
                   llm_response, calls, suspended, front, handlers,
                   backend>>

\* run(): graph.ainvoke raised before the graph reached END
RunError ==
    /\ node # "END"
    /\ output = NotReturned
    /\ output' = [status |-> "error", error |-> "Exception"]
    /\ UNCHANGED <<messages, plan, tool_results, iteration, finished, node,
                   llm_response, calls, suspended, front, handlers,
                   backend>>

\* Yield, with the cursor kept on the shared AgentGraph instead of in the
\* state of each run
Yield_shares_cursor ==
    /\ messages' = suspended.messages
    /\ plan' = suspended.plan
    /\ tool_results' = suspended.tool_results
    /\ iteration' = iteration
    /\ finished' = suspended.finished
    /\ node' = suspended.node
    /\ output' = suspended.output
    /\ llm_response' = suspended.llm_response
    /\ calls' = suspended.calls
    /\ suspended' = [RunState EXCEPT !.iteration = suspended.iteration]
    /\ trigger' = waiting
    /\ waiting' = trigger
    /\ UNCHANGED <<front, backend>>

\* the event loop switches between two runs of the one AgentGraph: the run
\* that was executing waits, the one that was waiting executes.  A node
\* keeps what it reads in local variables and hands its result to
\* LangGraph when it returns, so switching inside a node and switching
\* between nodes leave the same states.
Yield ==
    /\ messages' = suspended.messages
    /\ plan' = suspended.plan
    /\ tool_results' = suspended.tool_results
    /\ iteration' = suspended.iteration
    /\ finished' = suspended.finished
    /\ node' = suspended.node
    /\ output' = suspended.output
    /\ llm_response' = suspended.llm_response
    /\ calls' = suspended.calls
    /\ suspended' = RunState
    /\ trigger' = waiting
    /\ waiting' = trigger
    /\ UNCHANGED <<front, backend>>

Next ==
    \/ PlanNode(PlanResponses)
    \/ ExecuteNode(ToolChoices, ToolReplies)
    \/ ReflectNode(ReflectAnswers)
    \/ RunReturns
    \/ RunError

Spec == Init /\ [][Next]_vars

\* long plans, so that max_iterations decides
CapNext ==
    \/ PlanNode(CapPlanResponses)
    \/ ExecuteNode(CapToolChoices, CapToolReplies)
    \/ ReflectNode(ReflectAnswers)
    \/ RunReturns
    \/ RunError

CapSpec == Init /\ [][CapNext]_vars

\* every plan length against every answer of the Reflector, one tool
\* choice per step
LoopNext ==
    \/ PlanNode(CapPlanResponses)
    \/ ExecuteNode(LoopToolChoices, CapToolReplies)
    \/ ReflectNode(ReflectAnswers)
    \/ RunReturns
    \/ RunError

LoopSpec == Init /\ [][LoopNext]_vars

\* every call of the Completion Client and of the tool service returns
\* (or fails), so a node that can run does run; nothing says that
\* graph.ainvoke ever raises
FairLoopSpec ==
    LoopSpec /\ WF_vars(\/ PlanNode(CapPlanResponses)
                        \/ ExecuteNode(LoopToolChoices, CapToolReplies)
                        \/ ReflectNode(ReflectAnswers)
                        \/ RunReturns)

\* the plan always has LongPlanLen steps and reflection always answers CONTINUE
ScenarioNext ==
    \/ PlanNode(ScenarioPlanResponses)
    \/ ExecuteNode(CapToolChoices, CapToolReplies)
    \/ ReflectNode(ScenarioReflectAnswers)
    \/ RunReturns
    \/ RunError

ScenarioSpec == Init /\ [][ScenarioNext]_vars

\* the scenario, with the fairness of FairLoopSpec
FairScenarioSpec ==
    ScenarioSpec /\ WF_vars(\/ PlanNode(ScenarioPlanResponses)
                            \/ ExecuteNode(CapToolChoices, CapToolReplies)
                            \/ ReflectNode(ScenarioReflectAnswers)
                            \/ RunReturns)

\* one planning of every numbered list, one executed step, and a Reflector
\* that ends the run
ParseNext ==
    \/ PlanNode(NumberedPlanResponses)
    \/ ExecuteNode(LoopToolChoices, CapToolReplies)
    \/ ReflectNode(ParseReflectAnswers)
    \/ RunReturns
    \/ RunError

ParseSpec == Init /\ [][ParseNext]_vars

\* short plans, two tool choices per step, and the Reflector's answers
\* with and without "done" in them
DecisionNext ==
    \/ PlanNode(PlanResponses)
    \/ ExecuteNode(CapToolChoices, CapToolReplies)
    \/ ReflectNode(DecisionAnswers)
    \/ RunReturns
    \/ RunError

DecisionSpec == Init /\ [][DecisionNext]_vars

\* every registered tool against every reply of the tool service, in runs
\* that the Reflector ends after one step
DispatchNext ==
    \/ PlanNode(PlanResponses)
    \/ ExecuteNode(DispatchToolChoices, DispatchReplies)
    \/ ReflectNode(ParseReflectAnswers)
    \/ RunReturns
    \/ RunError

DispatchSpec == Init /\ [][DispatchNext]_vars

(***************************************************************************)
(* mcp_server/server.py: the tool-execution service.  A handler gets the   *)
(* JSON body of the POST and what its backend (DockerTools,                *)
(* FilesystemTools) returns; its reply also tells, in `read`, the          *)
(* parameter values it read from the request.                              *)
(***************************************************************************)
\* the body parsed as ToolRequest: `parameters` defaults to {} and keys
\* the model does not declare are ignored
ToolRequest(body) ==
    [parameters |-> DictGet(body, "parameters", EmptyDict)]

\* raise HTTPException(status_code=400), as response.raise_for_status()
\* reports it to the agent
BadRequest(read) ==
    [raises |-> TRUE, exc |-> "HTTPStatusError: 400 Bad Request", read |-> read]

Served(result, read) == [raises |-> FALSE, body |-> result, read |-> read]

\* Python's `not value` for a value read with dict.get
Missing(value) == value = PyNone \/ value = ""

server_docker_list(body, result) ==
    LET request == ToolRequest(body)
        all_containers == DictGet(request.parameters, "all", "True")
    IN  Served(result, [all |-> all_containers])

server_docker_exec(body, result) ==
    LET request == ToolRequest(body)
        container_id == DictGet(request.parameters, "container_id", PyNone)
        command == DictGet(request.parameters, "command", PyNone)
        read == [container_id |-> container_id, command |-> command]
    IN  IF Missing(container_id) \/ Missing(command)
        THEN BadRequest(read)
        ELSE Served(result, read)

server_filesystem_read(body, result) ==
    LET request == ToolRequest(body)
        path == DictGet(request.parameters, "path", PyNone)
    IN  IF Missing(path) THEN BadRequest([path |-> path])
        ELSE Served(result, [path |-> path])

server_filesystem_write(body, result) ==
    LET request == ToolRequest(body)
        path == DictGet(request.parameters, "path", PyNone)
        content == DictGet(request.parameters, "content", PyNone)
        read == [path |-> path, content |-> content]
    IN  IF Missing(path) \/ content = PyNone
        THEN BadRequest(read)
        ELSE Served(result, read)

server_filesystem_list(body, result) ==
    LET request == ToolRequest(body)
        path == DictGet(request.parameters, "path", ".")
    IN  Served(result, [path |-> path])

server_docker_logs(body, result) ==
    LET request == ToolRequest(body)
        container_id == DictGet(request.parameters, "container_id", PyNone)
        tail == DictGet(request.parameters, "tail", "100")
        read == [container_id |-> container_id, tail |-> tail]
    IN  IF Missing(container_id) THEN BadRequest(read) ELSE Served(result, read)

server_docker_inspect(body, result) ==
    LET request == ToolRequest(body)
        container_id == DictGet(request.parameters, "container_id", PyNone)
    IN  IF Missing(container_id) THEN BadRequest([container_id |-> container_id])
        ELSE Served(result, [container_id |-> container_id])

server_filesystem_delete(body, result) ==
    LET request == ToolRequest(body)
        path == DictGet(request.parameters, "path", PyNone)
    IN  IF Missing(path) THEN BadRequest([path |-> path])
        ELSE Served(result, [path |-> path])

server_filesystem_exists(body, result) ==
    LET request == ToolRequest(body)
        path == DictGet(request.parameters, "path", PyNone)
    IN  IF Missing(path) THEN BadRequest([path |-> path])
        ELSE Served(result, [path |-> path])

\* what the backends may return to a handler: an error or a payload
BackendResults(tool_name) ==
    {[error |-> "not found"]} \cup
    CASE tool_name = "docker_list" -> {[containers |-> <<"web", "db">>]}
      [] tool_name = "docker_exec" -> {[output |-> "ok"]}
      [] tool_name = "docker_logs" -> {[logs |-> "started"]}
      [] tool_name = "docker_inspect" -> {[id |-> "web"]}
      [] tool_name = "filesystem_read" -> {[content |-> "text"]}
      [] tool_name = "filesystem_write" -> {[success |-> "True"]}
      [] tool_name = "filesystem_list" -> {[files |-> <<"a">>]}
      [] tool_name = "filesystem_delete" -> {[success |-> "True"]}
      [] tool_name = "filesystem_exists" -> {[exists |-> "True"]}
      [] OTHER -> {}

\* the catalog GET /tools returns
list_tools ==
    {"docker_list", "docker_exec", "docker_logs", "docker_inspect",
     "filesystem_read", "filesystem_write", "filesystem_list",
     "filesystem_delete", "filesystem_exists"}

\* the tool names with an @app.post("/tools/<tool_name>") route
Routes ==
    {"docker_list", "docker_exec", "docker_logs", "docker_inspect",
     "filesystem_read", "filesystem_write", "filesystem_list",
     "filesystem_delete", "filesystem_exists"}

\* FastAPI's answer to a path without a route, as
\* response.raise_for_status() reports it to the agent
NotFound ==
    [raises |-> TRUE, exc |-> "HTTPStatusError: 404 Not Found", read |-> EmptyDict]

\* the server's answer to POST /tools/<tool_name>
server_reply(tool_name, body, result) ==
    IF tool_name \notin Routes THEN NotFound
    ELSE CASE tool_name = "docker_list" -> server_docker_list(body, result)
           [] tool_name = "docker_exec" -> server_docker_exec(body, result)
           [] tool_name = "docker_logs" -> server_docker_logs(body, result)
           [] tool_name = "docker_inspect" -> server_docker_inspect(body, result)
           [] tool_name = "filesystem_read" -> server_filesystem_read(body, result)
           [] tool_name = "filesystem_write" -> server_filesystem_write(body, result)
           [] tool_name = "filesystem_list" -> server_filesystem_list(body, result)
           [] tool_name = "filesystem_delete" -> server_filesystem_delete(body, result)
           [] tool_name = "filesystem_exists" -> server_filesystem_exists(body, result)

\* the reply of a request that is never sent
NoReply == [raises |-> TRUE, exc |-> "not sent", read |-> EmptyDict]

\* the Step Executor against this server: the reply to the request the
\* wrapper sends is the handler's
ServedExecuteNode(choices) ==
    /\ node = "execute"
    /\ output = NotReturned
    /\ \E resp \in choices :
         LET sent == execute_node(resp, NoReply).requests
             replies == IF sent = <<>> THEN {NoReply}
                        ELSE {server_reply(sent[1].tool, sent[1].parameters, result) :
                                 result \in BackendResults(sent[1].tool)}
         IN  \E reply \in replies :
                LET step == execute_node(resp, reply)
                IN  Apply(step.update) /\ Environment("execute", resp, step)
    /\ node' = "reflect"
    /\ UNCHANGED <<output, suspended, front, handlers, backend>>

\* every registered tool, with its required parameters, against the server
ServedNext ==
    \/ PlanNode(PlanResponses)
    \/ ServedExecuteNode(DispatchToolChoices)
    \/ ReflectNode(ReflectAnswers)
    \/ RunReturns
    \/ RunError

ServedSpec == Init /\ [][ServedNext]_vars

\* one run alone, with short plans and one tool choice per step
SoloNext ==
    \/ PlanNode(PlanResponses)
    \/ ExecuteNode(LoopToolChoices, CapToolReplies)
    \/ ReflectNode(ReflectAnswers)
    \/ RunReturns
    \/ RunError

\* two such runs of the one AgentGraph, interleaved in every way
ConcurrentNext ==
    \/ SoloNext
    \/ Yield

ConcurrentSpec == Init /\ [][ConcurrentNext]_vars

(***************************************************************************)
(* The tool server's filesystem tools, called with every path string of    *)
(* PathStrings in every order.                                             *)
(***************************************************************************)
\* the state of the agent's runs, which the tool server's methods and the
\* memory store's methods leave alone
agent == <<messages, plan, tool_results, iteration, finished, node, output,
           llm_response, calls, suspended>>

\* a method of FilesystemTools returns
Called(method, path, outcome) ==
    /\ fs_call' = [method |-> method, path |-> path,
                   result |-> outcome.result, touched |-> outcome.touched]
    /\ disk' = outcome.disk
    /\ UNCHANGED <<agent, front, handlers>>

ReadFile == \E path \in PathStrings : Called("read_file", path, read_file(disk, path))

WriteFile ==
    \E path \in PathStrings, content \in Contents :
        Called("write_file", path, write_file(disk, path, content))

ListDirectory ==
    \E path \in PathStrings :
        Called("list_directory", path, list_directory(disk, path))

DeleteFile ==
    \E path \in PathStrings : Called("delete_file", path, delete_file(disk, path))

FileExists ==
    \E path \in PathStrings : Called("file_exists", path, file_exists(disk, path))

FilesystemNext ==
    \/ ReadFile
    \/ WriteFile
    \/ ListDirectory
    \/ DeleteFile
    \/ FileExists

FilesystemSpec == Init /\ [][FilesystemNext]_vars

(***************************************************************************)
(* The memory store's facts and context (agent/memory.py), called          *)
(* directly.                                                               *)
(***************************************************************************)
\* the fact strings a caller adds
Facts == {"sky is blue", "db is down"}

\* what datetime.now().isoformat() returns
Instants == {"09:00:00", "09:00:01"}

\* the context keys and values a caller sets
ContextKeys == {"env", "team"}

ContextValues == {"prod", "dev"}

AddFact ==
    /\ Len(memory.facts) < MaxFacts
    /\ \E fact \in Facts, now \in Instants, written \in BOOLEAN :
         LET added == add_fact(memory, fact, now)
         IN  /\ memory' = added.memory
             /\ memory_file' = IF added.saved
                               THEN save_json_memory(added.memory, memory_file,
                                                     written)
                               ELSE memory_file
    /\ UNCHANGED <<agent, history, returned, handlers, backend>>

UpdateContext ==
    /\ \E key \in ContextKeys, value \in ContextValues, written \in BOOLEAN :
         /\ memory' = update_context(memory, key, value)
         /\ memory_file' = save_json_memory(memory', memory_file, written)
    /\ UNCHANGED <<agent, history, returned, handlers, backend>>

MemoryNext ==
    \/ AddFact
    \/ UpdateContext

MemorySpec == Init /\ [][MemoryNext]_vars

(***************************************************************************)
(* The webhook endpoint (agent/main.py, handle_webhook).  The handler runs *)
(* without interruption up to `await agent_graph.run(...)` and again from  *)
(* the return of run() to its own return; while a run is awaited the event *)
(* loop may start or resume another call.                                  *)
(***************************************************************************)
\* add_conversation, with the commit failing and rolled back
add_conversation_rolls_back(h, trigger_id, action, parameters, result, status) == h

\* add_conversation, the commit succeeding
add_conversation(h, trigger_id, action, parameters, result, status) ==
    Append(h, [trigger_id |-> trigger_id, action |-> action,
               parameters |-> parameters, result |-> result, status |-> status])

\* the rows of history from the i-th last to the first
RECURSIVE newest_first(_, _)
newest_first(h, i) ==
    IF i = 0 THEN <<>> ELSE <<h[i]>> \o newest_first(h, i - 1)

\* get_recent_conversations: the `limit` newest rows, newest first
get_recent_conversations(h, limit) ==
    SubSeq(newest_first(h, Len(h)), 1, IF Len(h) < limit THEN Len(h) ELSE limit)

\* limit=5 in handle_webhook
recent_limit == 5

\* the f-string task_description: the text is fixed when it is built, so
\* it holds the values as they were then
task_description(t, recent_convos, context) ==
    [action |-> t.action, parameters |-> t.parameters, context |-> t.context,
     recent_convos |-> recent_convos, memory_context |-> context]

\* for key, value in trigger.context.items(): update_context(key, value),
\* each with its _save_json_memory; written[key] tells whether that save
\* wrote the file
RECURSIVE update_each(_, _, _, _, _)
update_each(m, file, context, keys, written) ==
    IF keys = {} THEN [memory |-> m, file |-> file]
    ELSE LET key == CHOOSE k \in keys : TRUE
             updated == update_context(m, key, context[key])
         IN  update_each(updated, save_json_memory(updated, file, written[key]),
                         context, keys \ {key}, written)

\* the handler from the return of run() on, without the loop over
\* trigger.context
webhook_returns_keeps_context(t, result, m, file, h, written) ==
    [history |-> add_conversation(h, t.trigger_id, t.action, t.parameters, result,
                    IF DictGet(result, "status", PyNone) = "success"
                    THEN "success" ELSE "error"),
     memory |-> m,
     file |-> file,
     response |-> [trigger_id |-> t.trigger_id, status |-> "success",
                   result |-> result]]

\* the handler from the return of run() to its own return
webhook_returns(t, result, m, file, h, written) ==
    LET updated == IF t.context # EmptyDict
                   THEN update_each(m, file, t.context, DOMAIN t.context, written)
                   ELSE [memory |-> m, file |-> file]
    IN  [history |-> add_conversation(h, t.trigger_id, t.action, t.parameters,
                        result,
                        IF DictGet(result, "status", PyNone) = "success"
                        THEN "success" ELSE "error"),
         memory |-> updated.memory,
         file |-> updated.file,
         response |-> [trigger_id |-> t.trigger_id, status |-> "success",
                       result |-> result]]

\* the except branch of the handler
webhook_fails(t, exc, h) ==
    [history |-> add_conversation(h, t.trigger_id, t.action, t.parameters,
                                  [error |-> exc], "error"),
     response |-> [trigger_id |-> t.trigger_id, status |-> "error",
                   error |-> exc]]

\* the WebhookTrigger payloads a caller posts: context is empty, sets one
\* key or sets two; trigger ids may repeat
Triggers ==
    {[trigger_id |-> "t1", action |-> "check", parameters |-> EmptyDict,
      context |-> EmptyDict],
     [trigger_id |-> "t1", action |-> "check", parameters |-> EmptyDict,
      context |-> [env |-> "prod"]],
     [trigger_id |-> "t2", action |-> "check", parameters |-> EmptyDict,
      context |-> [env |-> "dev"]],
     [trigger_id |-> "t2", action |-> "check", parameters |-> EmptyDict,
      context |-> [env |-> "dev", team |-> "ops"]]}

\* the webhook calls received so far
Received ==
    Len(returned) + (IF trigger # NoTrigger THEN 1 ELSE 0)
                  + (IF waiting # NoTrigger THEN 1 ELSE 0)

\* handle_webhook up to the await: the context and the recent
\* conversations are read, the task description is built, run() begins
WebhookStarts ==
    /\ trigger = NoTrigger
    /\ Received < MaxWebhooks
    /\ \E t \in Triggers :
         trigger' = [t EXCEPT !.trigger_id = t.trigger_id] @@
                    [task_description |->
                        task_description(t,
                            get_recent_conversations(history, recent_limit),
                            get_context(memory))]
    /\ messages' = <<[role |-> "user"]>>
    /\ plan' = <<>>
    /\ tool_results' = <<>>
    /\ iteration' = 0
    /\ finished' = FALSE
    /\ node' = "plan"
    /\ output' = NotReturned
    /\ llm_response' = [prompt |-> "none"]
    /\ calls' = <<>>
    /\ UNCHANGED <<suspended, front, waiting, backend>>

\* handle_webhook when reading the conversation table raises: the except
\* branch saves the error and returns it
WebhookFails ==
    /\ trigger = NoTrigger
    /\ Received < MaxWebhooks
    /\ \E t \in Triggers :
         LET done == webhook_fails(t, "OperationalError", history)
         IN  /\ history' = done.history
             /\ returned' = Append(returned, done.response)
    /\ UNCHANGED <<agent, memory, memory_file, handlers, backend>>

\* handle_webhook from the return of run() to its own return
WebhookReturns ==
    /\ trigger # NoTrigger
    /\ output # NotReturned
    /\ \E written \in [DOMAIN trigger.context -> BOOLEAN] :
         LET done == webhook_returns(trigger, output, memory, memory_file,
                                     history, written)
         IN  /\ history' = done.history
             /\ memory' = done.memory
             /\ memory_file' = done.file
             /\ returned' = Append(returned, done.response)
    /\ trigger' = NoTrigger
    /\ UNCHANGED <<agent, waiting, backend>>

\* a run is executing for a webhook call
Running == trigger # NoTrigger

\* the Completion Client plans one step or fails
WebhookPlanResponses == {LLMError, Text(PlanText(1))}

WebhookNext ==
    \/ WebhookStarts
    \/ WebhookFails
    \/ WebhookReturns
    \/ Running /\ PlanNode(WebhookPlanResponses)
    \/ Running /\ ExecuteNode(LoopToolChoices, CapToolReplies)
    \/ Running /\ ReflectNode(ParseReflectAnswers)
    \/ Running /\ RunReturns
    \/ Running /\ RunError
    \/ Yield

WebhookSpec == Init /\ [][WebhookNext]_vars

\* runs planned as "1. List docker containers", among others, with every
\* tool choice and every reply
ListNext ==
    \/ PlanNode(ListPlanResponses)
    \/ ExecuteNode(ToolChoices, ToolReplies)
    \/ ReflectNode(ReflectAnswers)
    \/ RunReturns
    \/ RunError

ListSpec == Init /\ [][ListNext]_vars

\* one planning of every mixed text, one executed step, and a Reflector
\* that ends the run
FilterNext ==
    \/ PlanNode(MixedPlanResponses)
    \/ ExecuteNode(LoopToolChoices, CapToolReplies)
    \/ ReflectNode(ParseReflectAnswers)
    \/ RunReturns
    \/ RunError

FilterSpec == Init /\ [][FilterNext]_vars

(***************************************************************************)
(* Properties.                                                             *)
(***************************************************************************)
\* the results that carry a step of the plan
StepResults == SelectSeq(tool_results, LAMBDA r : "step" \in DOMAIN r)

\* the invocations of the Plan Generator so far: each leaves one assistant message
PlanInvocations == Len(SelectSeq(messages, LAMBDA m : m.role = "assistant"))

\* this step is the Step Executor taking a step of the plan
ExecutesStep ==
    /\ node = "execute"
    /\ node' = "reflect"
    /\ plan # <<>>
    /\ iteration < Len(plan)

\* the tool choice in r names a tool that is not registered
ChoseUnknownTool(r) ==
    /\ r.prompt = "execute"
    /\ r.response.ok
    /\ r.response.content.json
    /\ r.response.content.object
    /\ DictGet(r.response.content.value, "tool", PyNone) \notin AVAILABLE_TOOLS

\* r is an answer to the Reflector with neither DONE nor CONTINUE in it
AmbiguousReflection(r) ==
    /\ r.prompt = "reflect"
    /\ r.response.ok
    /\ ~contains(upper(strip(r.response.content)), DONE)
    /\ ~contains(upper(strip(r.response.content)), CONTINUE)

\* this step is the Reflector consulting the Completion Client and
\* getting an ambiguous answer
ReflectsOnAmbiguity ==
    /\ node = "reflect"
    /\ node' # "reflect"
    /\ iteration < Len(plan)
    /\ iteration < max_iterations
    /\ AmbiguousReflection(llm_response')

C2_CursorWithinPlan ==
    iteration <= Len(plan)

\* C3 as claimed: the Plan Generator is invoked exactly once per run, so at
\* no time has it been invoked more than once.
C3_PlansOnce ==
    PlanInvocations <= 1

C5_ErrorKeepsResults ==
    output.status = "error" => DictGet(output, "results", <<>>) = tool_results

\* C6: every run eventually returns, whatever the plans, the tool choices
\* and the Reflector's answers, provided every node that can run does run.
C6_Terminates ==
    <>(output # NotReturned)

\* C6: a run returned after the cap, not the Reflector's answer, ended it.
C6_Witness ==
    /\ output.status = "success"
    /\ iteration = max_iterations
    /\ Len(plan) > max_iterations
    /\ llm_response.prompt = "execute"

\* C7: the cursor never exceeds max_iterations, and no more than
\* max_iterations steps are executed or tool requests sent in a run.
C7_CursorCapped ==
    /\ iteration <= max_iterations
    /\ Len(StepResults) <= max_iterations
    /\ Len(calls) <= max_iterations

\* C7: max_iterations tool requests were sent for a plan longer than that.
C7_Witness ==
    /\ iteration = max_iterations
    /\ Len(calls) = max_iterations
    /\ Len(plan) > max_iterations

\* the steps of the plan after the first max_iterations
StepsBeyondCap == {plan[i] : i \in (max_iterations + 1)..Len(plan)}

\* the scenario's run has returned, and if it returned normally it did so
\* with the cursor at max_iterations, finished set and max_iterations
\* results, one for each of the first max_iterations steps of the plan
ScenarioDone ==
    /\ output # NotReturned
    /\ output.status = "success" =>
          /\ Len(plan) = LongPlanLen
          /\ iteration = max_iterations
          /\ finished
          /\ Len(tool_results) = max_iterations
          /\ output.results = tool_results
          /\ \A i \in 1..Len(tool_results) :
                /\ tool_results[i].step = plan[i]
                /\ tool_results[i].step \notin StepsBeyondCap

C9_OneStepOneResult ==
    [][ExecutesStep =>
         /\ iteration' = iteration + 1
         /\ Len(tool_results') = Len(tool_results) + 1
         /\ SubSeq(tool_results', 1, Len(tool_results)) = tool_results
         /\ tool_results'[Len(tool_results')].step = plan[iteration + 1]
         /\ Len(calls') <= Len(calls) + 1
         /\ SubSeq(calls', 1, Len(calls)) = calls]_vars

\* C9: three steps were executed: a tool call, an unknown tool and a
\* tool choice that was not JSON.
C9_Witness ==
    /\ iteration = 3
    /\ Len(tool_results) = 3
    /\ "tool" \in DOMAIN tool_results[1]
    /\ Len(calls) = 1
    /\ tool_results[2] = [step |-> plan[2], error |-> "Unknown tool: nonexistent_tool"]
    /\ tool_results[3] = [step |-> plan[3], error |-> "JSONDecodeError"]

\* C10: when the tool choice names an unregistered tool the Step Executor
\* appends the error "Unknown tool: <name>" for the current step, sends no
\* tool request, advances the cursor by one and hands over to reflection.
C10_UnknownToolRecorded ==
    [][(node = "execute" /\ ChoseUnknownTool(llm_response')) =>
         /\ tool_results' = Append(tool_results,
                [step |-> plan[iteration + 1],
                 error |-> "Unknown tool: "
                    \o DictGet(llm_response'.response.content.value, "tool", "None")])
         /\ calls' = calls
         /\ iteration' = iteration + 1
         /\ node' = "reflect"
         /\ output' = NotReturned]_vars

\* C10: the first step chose the tool "nonexistent_tool".
C10_Witness ==
    /\ node = "reflect"
    /\ ChoseUnknownTool(llm_response)
    /\ iteration = 1
    /\ calls = <<>>
    /\ tool_results = <<[step |-> plan[1], error |-> "Unknown tool: nonexistent_tool"]>>

\* the tool choice in r is text that is not JSON, or JSON that is no object
MalformedToolSelection(r) ==
    /\ r.prompt = "execute"
    /\ r.response.ok
    /\ IF r.response.content.json THEN ~r.response.content.object ELSE TRUE

\* C11: when the tool choice is not JSON, or is JSON that is no object, the
\* Step Executor appends one error result for the current step, sends no
\* tool request, advances the cursor by one and hands over to reflection;
\* the run has not returned with an error.
C11_MalformedChoiceRecorded ==
    [][(node = "execute" /\ MalformedToolSelection(llm_response')) =>
         /\ Len(tool_results') = Len(tool_results) + 1
         /\ SubSeq(tool_results', 1, Len(tool_results)) = tool_results
         /\ DOMAIN tool_results'[Len(tool_results')] = {"step", "error"}
         /\ tool_results'[Len(tool_results')].step = plan[iteration + 1]
         /\ calls' = calls
         /\ iteration' = iteration + 1
         /\ node' = "reflect"
         /\ output' = NotReturned]_vars

\* C11: the first step's tool choice was not JSON, the second step's was
\* JSON but no object; both are recorded and reflection is next.
C11_Witness ==
    /\ node = "reflect"
    /\ MalformedToolSelection(llm_response)
    /\ llm_response.response.content.json
    /\ iteration = 2
    /\ calls = <<>>
    /\ tool_results = <<[step |-> plan[1], error |-> "JSONDecodeError"],
                        [step |-> plan[2], error |-> "AttributeError: get"]>>

\* this step is the Step Executor asking for a tool choice for a step of the plan
AsksToolChoice ==
    /\ node = "execute"
    /\ node' = "reflect"
    /\ llm_response'.prompt = "execute"

\* the tool choice in r names a registered tool
ChoseRegisteredTool(r) ==
    /\ r.prompt = "execute"
    /\ r.response.ok
    /\ r.response.content.json
    /\ r.response.content.object
    /\ DictGet(r.response.content.value, "tool", PyNone) \in AVAILABLE_TOOLS

\* the tool service failed on this request: the call raised (timeout,
\* transport failure, HTTP status) or the body carries an "error" key
DispatchFailed(request) ==
    \/ request.reply.raises
    \/ ~request.reply.raises /\ "error" \in DOMAIN request.reply.body

\* the text of that failure
DispatchFailure(request) ==
    IF request.reply.raises THEN request.reply.exc ELSE request.reply.body.error

\* this step dispatches a registered tool and the tool service fails
DispatchFails ==
    /\ AsksToolChoice
    /\ Len(calls') = Len(calls) + 1
    /\ DispatchFailed(calls'[Len(calls')])

\* this step of the Step Executor meets a step-level fault: the Completion
\* Client fails, the tool choice is malformed, the tool is unknown, the
\* parameters do not fit the tool, or the tool service fails
StepFaults ==
    /\ AsksToolChoice
    /\ \/ ~llm_response'.response.ok
       \/ MalformedToolSelection(llm_response')
       \/ ChoseUnknownTool(llm_response')
       \/ ChoseRegisteredTool(llm_response') /\ calls' = calls
       \/ DispatchFails

\* the result appended by this step tells the fault of the current step
FaultRecorded ==
    LET last == tool_results'[Len(tool_results')]
    IN  /\ Len(tool_results') = Len(tool_results) + 1
        /\ last.step = plan[iteration + 1]
        /\ IF DispatchFails
           THEN DictGet(last, "result", "") =
                    "Error: " \o DispatchFailure(calls'[Len(calls')])
           ELSE "error" \in DOMAIN last

\* C12: a step-level fault (Completion Client failure, malformed tool
\* choice, unknown tool, parameters that do not fit, tool-service failure)
\* is recorded in the results and the run goes on to reflection without
\* returning; results are never dropped; and a run that returns "success"
\* returns all of them.
C12_StepFaultsDoNotAbort ==
    [][/\ StepFaults => (FaultRecorded /\ output' = NotReturned)
       /\ SubSeq(tool_results', 1, Len(tool_results)) = tool_results
       /\ output'.status = "success" => output'.results = tool_results']_vars

\* C12: a run returned "success" after a failed Completion Client call, a
\* failed tool request and a tool call without its required parameter.
C12_Witness ==
    /\ output.status = "success"
    /\ Len(output.results) = 3
    /\ Len(plan) = 3
    /\ output.results[1] = [step |-> plan[1], error |-> "ReadTimeout"]
    /\ output.results[2] = [step |-> plan[2], tool |-> "docker_list_containers",
                            result |-> "Error: ConnectError"]
    /\ output.results[3] = [step |-> plan[3], error |-> TypeErrorText]

\* C13 as claimed: when a registered tool is dispatched and the tool
\* service fails, the result recorded for the step has its error field
\* set and carries no output.
C13_FailedDispatchIsError ==
    [][DispatchFails =>
         LET last == tool_results'[Len(tool_results')]
         IN  /\ "error" \in DOMAIN last
             /\ "result" \notin DOMAIN last]_vars

\* this step is the Plan Generator meeting a failure of the Completion Client
PlanningFails ==
    /\ node = "plan"
    /\ node' # "plan"
    /\ llm_response'.prompt = "plan"
    /\ ~llm_response'.response.ok

\* C14: when the Completion Client fails in the Plan Generator the plan
\* becomes exactly <<"Error in planning">> and the run, not returned, goes
\* on to the Step Executor; a Step Executor that finds this plan at
\* cursor 0 executes its one step.
C14_PlanningFallback ==
    [][/\ PlanningFails =>
            /\ plan' = <<ErrorInPlanning>>
            /\ node' = "execute"
            /\ output' = NotReturned
       /\ (node = "execute" /\ node' = "reflect"
              /\ plan = <<ErrorInPlanning>> /\ iteration = 0) =>
            /\ iteration' = 1
            /\ Len(tool_results') = Len(tool_results) + 1
            /\ tool_results'[Len(tool_results')].step = ErrorInPlanning]_vars

\* C14: the first planning call failed and the Step Executor has taken
\* "Error in planning" as the step to execute.
C14_Witness ==
    /\ node = "reflect"
    /\ PlanInvocations = 1
    /\ plan = <<ErrorInPlanning>>
    /\ iteration = 1
    /\ Len(tool_results) = 1
    /\ tool_results[1].step = ErrorInPlanning

\* the ordinal 1..ordinal_stop-1 that the line starts with, 0 if none
LeadingOrdinal(line) ==
    LET stripped == strip(line)
        accepted == {i \in 1..(ordinal_stop - 1) :
                        startswith(stripped, str_int(i) \o <<".">>)}
    IN  IF accepted = {} THEN 0 ELSE CHOOSE i \in accepted : TRUE

\* no two lines start with the same accepted ordinal
DistinctOrdinals(lines) ==
    \A a, b \in 1..Len(lines) :
        (a # b /\ LeadingOrdinal(lines[a]) # 0) =>
            LeadingOrdinal(lines[a]) # LeadingOrdinal(lines[b])

\* the Plan Generator has just parsed an answer of the Completion Client
PlanParsed ==
    /\ node = "execute"
    /\ llm_response.prompt = "plan"
    /\ llm_response.response.ok

\* C15 as claimed: whatever the Completion Client answers, the plan has at
\* most 19 steps.
C15_AtMostNineteenSteps ==
    Len(plan) <= 19

\* C15 as amended: the plan holds one step for each line of the answer that
\* starts with an ordinal 1..19 and a dot, so it has at most 19 steps when
\* no two lines carry the same ordinal (lines numbered 20 and up are
\* dropped); lines that repeat an ordinal are all kept.
C15_DistinctOrdinalsCapPlan ==
    PlanParsed =>
        LET lines == llm_response.response.content
        IN  /\ Len(plan) = Cardinality({j \in 1..Len(lines) : LeadingOrdinal(lines[j]) # 0})
            /\ \A k \in 1..Len(plan) : LeadingOrdinal(plan[k]) # 0
            /\ DistinctOrdinals(lines) => Len(plan) <= 19

\* C15: a list numbered 1..20 was parsed into a plan of the first 19 lines.
C15_Witness ==
    /\ PlanParsed
    /\ Len(llm_response.response.content) = 20
    /\ DistinctOrdinals(llm_response.response.content)
    /\ Len(plan) = 19
    /\ plan[19] = strip(StepLine(19))

\* this step is the Reflector consulting the Completion Client
ReflectorConsults ==
    /\ node = "reflect"
    /\ node' # "reflect"
    /\ llm_response'.prompt = "reflect"

\* C16: when the Completion Client fails in the Reflector, the Reflector
\* returns finished = true and the graph ends, with steps of the plan
\* still unexecuted and nothing else in the run state changed.
C16_ReflectionFailureStops ==
    [][(ReflectorConsults /\ ~llm_response'.response.ok) =>
         /\ finished'
         /\ node' = "END"
         /\ iteration < Len(plan)
         /\ UNCHANGED <<plan, iteration, tool_results, calls, output>>]_vars

\* C16: a run of a three-step plan returned after one executed step
\* because the Completion Client failed in the Reflector.
C16_Witness ==
    /\ output.status = "success"
    /\ finished
    /\ llm_response.prompt = "reflect"
    /\ ~llm_response.response.ok
    /\ iteration = 1
    /\ Len(plan) = 3
    /\ Len(output.results) = 1

\* the letters d, o, n, e occur in s one after the other, each in either case
HasDoneInAnyCase(s) ==
    \E p \in 1..(Len(s) - 3) :
        /\ s[p] \in {"D", "d"}
        /\ s[p + 1] \in {"O", "o"}
        /\ s[p + 2] \in {"N", "n"}
        /\ s[p + 3] \in {"E", "e"}

\* C17: when the Reflector consults the Completion Client and the answer
\* has "done" in it, in any letter case, inside a longer word or next to
\* CONTINUE, the Reflector returns finished = true and the graph ends with
\* steps of the plan still unexecuted.
C17_DoneSubstringStops ==
    [][(/\ ReflectorConsults
        /\ llm_response'.response.ok
        /\ HasDoneInAnyCase(llm_response'.response.content)) =>
         /\ finished'
         /\ node' = "END"
         /\ iteration < Len(plan)
         /\ UNCHANGED <<plan, iteration, tool_results, calls, output>>]_vars

\* C17: a run of a three-step plan returned after one executed step on the
\* Reflector's answer "CONTINUE, not dOnE".
C17_Witness ==
    /\ output.status = "success"
    /\ finished
    /\ llm_response.prompt = "reflect"
    /\ llm_response.response.ok
    /\ contains(llm_response.response.content, CONTINUE)
    /\ HasDoneInAnyCase(llm_response.response.content)
    /\ iteration = 1
    /\ Len(plan) = 3
    /\ Len(output.results) = 1

\* this step is the Reflector running with the cursor at or past the end
\* of the plan, or at or past max_iterations
ReflectorMustStop ==
    /\ node = "reflect"
    /\ node' # "reflect"
    /\ (iteration >= Len(plan) \/ iteration >= 10)

\* C18: with cursor >= len(plan) or cursor >= max_iterations the Reflector
\* returns finished = true without consulting the Completion Client and
\* changes nothing else; run again on the state it left, whatever the
\* Completion Client would answer, it again returns just finished = true
\* without consulting, which leaves that state as it is.
C18_StopIsIdempotent ==
    [][ReflectorMustStop =>
         /\ finished'
         /\ node' = "END"
         /\ UNCHANGED <<llm_response, messages, plan, iteration, tool_results,
                        calls, output>>
         /\ \A resp \in ReflectAnswers :
               reflect_node(resp)' = Step([finished |-> finished'], FALSE, <<>>)]_vars

\* C18: the Reflector stopped a run at cursor max_iterations with steps of
\* the plan left, the last question to the Completion Client being the
\* Step Executor's.
C18_Witness ==
    /\ node = "END"
    /\ output = NotReturned
    /\ finished
    /\ iteration = max_iterations
    /\ iteration < Len(plan)
    /\ llm_response.prompt = "execute"
    /\ \A resp \in ReflectAnswers :
          reflect_node(resp) = Step([finished |-> TRUE], FALSE, <<>>)

\* this step is the Step Executor running with the cursor at or past the
\* end of the plan
ExecutorPastPlan ==
    /\ node = "execute"
    /\ node' = "reflect"
    /\ iteration >= Len(plan)

C20_ReflectionLeadsToExecution ==
    [][/\ (node = "reflect" /\ node' # "reflect") =>
            node' = (IF finished' THEN "END" ELSE "execute")
       /\ (node # "END" /\ node' = "END") => node = "reflect"]_vars

\* C21: once finished is true it stays true, and from then on no result is
\* appended, no tool request is sent and the cursor does not move.
C21_FinishedIsTerminal ==
    [][finished =>
         /\ finished'
         /\ UNCHANGED <<tool_results, calls, iteration>>]_vars

\* C21: the Step Executor set finished (cursor past a re-made plan), the
\* Reflector ran after it, and the graph ended.
C21_Witness ==
    /\ node = "END"
    /\ finished
    /\ llm_response.prompt = "plan"
    /\ plan # <<>>
    /\ iteration >= Len(plan)
    /\ iteration >= 1

\* C22: across every transition the results so far are a prefix of the
\* results after it, and a run that returns "success" returns exactly the
\* results accumulated, in their order.
C22_ResultsAppendOnly ==
    [][/\ Len(tool_results') >= Len(tool_results)
       /\ SubSeq(tool_results', 1, Len(tool_results)) = tool_results
       /\ (output = NotReturned /\ output'.status = "success") =>
             output'.results = tool_results]_vars

\* C22: a run returned two results, a failed one for the first step and a
\* tool's output for the second, in the order they were appended.
C22_Witness ==
    /\ output.status = "success"
    /\ Len(output.results) = 2
    /\ Len(plan) >= 2
    /\ output.results[1] = [step |-> plan[1], error |-> "JSONDecodeError"]
    /\ DOMAIN output.results[2] = {"step", "tool", "result"}
    /\ output.results[2].step = plan[2]

\* C23: every result the Step Executor appends for a step of the plan
\* carries that step and exactly one of "result" and "error"; a result
\* without a step is appended only when the plan is empty, and it is the
\* error "No plan available"; no other node appends a result.
C23_OutputOrError ==
    [][\A i \in (Len(tool_results) + 1)..Len(tool_results') :
         LET r == tool_results'[i]
         IN  /\ node = "execute"
             /\ IF plan # <<>>
                THEN /\ "step" \in DOMAIN r
                     /\ r.step = plan[iteration + 1]
                     /\ ("result" \in DOMAIN r) # ("error" \in DOMAIN r)
                ELSE r = [error |-> "No plan available"]]_vars

\* C23: a run recorded an error for its first step, a tool's output for
\* its second, and then found an empty plan.
C23_Witness ==
    /\ Len(tool_results) = 3
    /\ DOMAIN tool_results[1] = {"step", "error"}
    /\ DOMAIN tool_results[2] = {"step", "tool", "result"}
    /\ tool_results[3] = [error |-> "No plan available"]
    /\ plan = <<>>

\* C24: when a registered tool is dispatched and the request raises or the
\* body carries an "error" key, whatever else it carries, the wrapper
\* returns the text "Error: " followed by the failure, which the Step
\* Executor records as the tool's result: no exception reaches the Step
\* Executor or the run.
C24_DispatchFailureIsText ==
    [][DispatchFails =>
         LET request == calls'[Len(calls')]
         IN  /\ "error" \in DOMAIN call_tool(request.tool, request.parameters,
                                                request.reply)
             /\ tool_results' = Append(tool_results,
                    [step |-> plan[iteration + 1],
                     tool |-> llm_response'.response.content.value.tool,
                     result |-> "Error: " \o DispatchFailure(request)])
             /\ node' = "reflect"
             /\ output' = NotReturned]_vars

\* C24: filesystem_list got a body with "error" next to "files" and
\* returned the failure text.
C24_Witness ==
    /\ node = "reflect"
    /\ Len(calls) = 1
    /\ calls[1].tool = "filesystem_list"
    /\ ~calls[1].reply.raises
    /\ {"error", "files"} \subseteq DOMAIN calls[1].reply.body
    /\ tool_results = <<[step |-> plan[1], tool |-> "filesystem_list",
                         result |-> "Error: denied"]>>

\* the results of run r that carry a step are as many as its cursor
ResultsMatchCursor(r) ==
    Len(SelectSeq(r.tool_results, LAMBDA x : "step" \in DOMAIN x)) = r.iteration

\* C25: of two interleaved runs, every step either switches between them,
\* carrying over the state of both as it is, or is a step one run would
\* take alone on its own state, leaving the state of the other run as it
\* is; and in each run the results that carry a step stay as many as its
\* own cursor.
C25_RunsAreIndependent ==
    [][/\ \/ suspended' = RunState /\ RunState' = suspended
          \/ suspended' = suspended /\ SoloNext
       /\ ResultsMatchCursor(RunState')
       /\ ResultsMatchCursor(suspended')]_vars

\* C25: both runs are under way at once, with different plans and cursors.
C25_Witness ==
    /\ node = "reflect"
    /\ suspended.node = "reflect"
    /\ iteration = 1
    /\ suspended.iteration = 2
    /\ Len(plan) = 3
    /\ Len(suspended.plan) = 2
    /\ output = NotReturned
    /\ suspended.output = NotReturned

\* the run planned once, the plan is the one step ListStep, and the one
\* request sent was docker_list with no parameters, answered with two
\* containers
ListScenario ==
    /\ PlanInvocations = 1
    /\ plan = <<ListStep>>
    /\ calls = <<[tool |-> "docker_list", parameters |-> EmptyDict,
                  reply |-> [raises |-> FALSE,
                             body |-> [containers |-> <<"web", "db">>]]]>>

\* C26: in that scenario the run holds exactly one result, for ListStep
\* and the tool docker_list_containers with the text "Found 2 containers:
\* ..." as its result, the cursor is 1, the Reflector was never answered
\* by the Completion Client, the graph is at its first reflection or has
\* ended there with finished = true, and a run that returned returned
\* that result.
C26_ListContainers ==
    ListScenario =>
        /\ tool_results =
              <<[step |-> ListStep, tool |-> "docker_list_containers",
                 result |-> "Found 2 containers: " \o ToString(<<"web", "db">>)]>>
        /\ iteration = 1
        /\ node \in {"reflect", "END"}
        /\ node = "END" => finished
        /\ llm_response.prompt = "execute"
        /\ output.status = "success" =>
              (output.results = tool_results /\ output.plan = <<ListStep>>)

\* C26: the scenario's run has returned.
C26_Witness ==
    /\ ListScenario
    /\ output.status = "success"
    /\ Len(output.results) = 1
    /\ finished
    /\ iteration = 1

\* the line, stripped, begins with one of 1..19 written in decimal and a dot
BeginsWithOrdinal(line) ==
    LET l == strip(line)
    IN  \/ /\ Len(l) >= 2
           /\ l[1] \in {"1", "2", "3", "4", "5", "6", "7", "8", "9"}
           /\ l[2] = "."
        \/ /\ Len(l) >= 3
           /\ l[1] = "1"
           /\ l[2] \in {"0", "1", "2", "3", "4", "5", "6", "7", "8", "9"}
           /\ l[3] = "."

\* the lines that begin with an ordinal, stripped, in their order
RECURSIVE KeptLines(_)
KeptLines(lines) ==
    IF lines = <<>> THEN <<>>
    ELSE (IF BeginsWithOrdinal(Head(lines)) THEN <<strip(Head(lines))>> ELSE <<>>)
            \o KeptLines(Tail(lines))

\* C27: when the Completion Client answers the Plan Generator, the plan is
\* exactly the stripped lines of the answer that begin with an ordinal
\* 1..19 and a dot, in their order; every other line is dropped, and an
\* answer without such a line gives the empty plan, not the fallback.
C27_PlanIsKeptLines ==
    PlanParsed =>
        /\ plan = KeptLines(llm_response.response.content)
        /\ plan # <<ErrorInPlanning>>

\* C27: of a heading, a line with tab and carriage return around "7.h"
\* and a line numbered 20, only "7.h" was kept.
C27_Witness ==
    /\ PlanParsed
    /\ Len(llm_response.response.content) = 3
    /\ llm_response.response.content[1] = <<"P", "l", "a", "n", ":">>
    /\ llm_response.response.content[3] = <<"2", "0", ".", " ", "c">>
    /\ plan = << <<"7", ".", "h">> >>

\* C28: the cursor starts at 0 and never decreases; when it changes, the
\* Step Executor changed it, by exactly +1; the plan node and the reflect
\* node leave the cursor and the results as they are.
C28_CursorFrame ==
    /\ iteration = 0
    /\ [][/\ iteration' >= iteration
          /\ iteration' # iteration =>
                (node = "execute" /\ iteration' = iteration + 1)
          /\ node \in {"plan", "reflect"} =>
                UNCHANGED <<iteration, tool_results>>]_vars

\* C28: the plan node has run a third time, at cursor 2, and left the
\* cursor and the two results as they were.
C28_Witness ==
    /\ node = "execute"
    /\ PlanInvocations = 3
    /\ iteration = 2
    /\ Len(tool_results) = 2

\* C29 as claimed: for every request the agent sent, the handler read for
\* each parameter sent the value that was sent, and did not reject the
\* request.
C29_ServerReadsWhatWasSent ==
    \A i \in 1..Len(calls) :
        LET request == calls[i]
        IN  /\ \A k \in DOMAIN request.parameters :
                  /\ k \in DOMAIN request.reply.read
                  /\ request.reply.read[k] = request.parameters[k]
            /\ ~request.reply.raises

\* C30 as claimed: in the output of a successful run every result that
\* carries a step carries the step of the returned plan at its own index.
C30_ResultsAlignWithPlan ==
    output.status = "success" =>
        \A i \in 1..Len(output.results) :
            "step" \in DOMAIN output.results[i] =>
                /\ i <= Len(output.plan)
                /\ output.results[i].step = output.plan[i]

\* p is the base directory or lies below it
InsideBase(p) ==
    /\ Len(p) >= Len(base_path)
    /\ SubSeq(p, 1, Len(base_path)) = base_path

\* C32 as claimed: every path a filesystem tool looked at or changed lies
\* inside the base directory, and a path string that resolves outside it
\* is answered with an error without anything being looked at or changed.
C32_PathsConfined ==
    /\ \A p \in fs_call.touched : InsideBase(p)
    /\ (fs_call # NoCall /\ ~InsideBase(resolved_path(fs_call.path))) =>
          /\ "error" \in DOMAIN fs_call.result
          /\ fs_call.touched = {}

\* C36 as claimed: no fact string appears twice in get_facts().
C36_FactsStoredOnce ==
    \A i, j \in 1..Len(get_facts(memory)) :
        get_facts(memory)[i] = get_facts(memory)[j] => i = j

\* the server lists the tool name of this request and has a route for it
Serves(request) ==
    /\ request.tool \in list_tools
    /\ request.tool \in Routes

\* the request the registered tool of this tool choice sends
RequestOf(choice) ==
    tool_func(choice.content.value.tool, choice.content.value.parameters,
              NoReply).requests

\* C34: every tool of the registry, called with its parameters, sends one
\* request, to a tool name the server lists and routes; and every request
\* the server received in a run was for such a name and was not answered
\* with 404.
C34_RegisteredToolsAreServed ==
    /\ \A name \in AVAILABLE_TOOLS :
          \E choice \in DispatchToolChoices : choice.content.value.tool = name
    /\ \A choice \in DispatchToolChoices :
          /\ Len(RequestOf(choice)) = 1
          /\ Serves(RequestOf(choice)[1])
    /\ \A i \in 1..Len(calls) :
          /\ Serves(calls[i])
          /\ calls[i].reply # NotFound

\* C34: docker_exec_command reached the server's docker_exec handler and
\* docker_list_containers its docker_list handler, in one run.
C34_Witness ==
    /\ \E i \in 1..Len(calls) :
          calls[i].tool = "docker_exec" /\ "command" \in DOMAIN calls[i].reply.read
    /\ \E i \in 1..Len(calls) :
          calls[i].tool = "docker_list" /\ ~calls[i].reply.raises

\* C31 as claimed: every AgentResponse returned carries the status of
\* the conversation row saved for the same call.
C31_ReportedStatusIsStoredStatus ==
    \A i \in 1..Len(returned) :
        /\ i <= Len(history)
        /\ returned[i].status = history[i].status

\* this step begins a webhook call: its task description is built
WebhookBegins ==
    /\ trigger = NoTrigger
    /\ trigger' # NoTrigger
    /\ waiting' = waiting

\* this step ends a webhook call on the normal path
ReturnsNormally ==
    /\ Len(returned') = Len(returned) + 1
    /\ "result" \in DOMAIN returned'[Len(returned')]

\* this step ends a webhook call on the exception path
ReturnsError ==
    /\ Len(returned') = Len(returned) + 1
    /\ "error" \in DOMAIN returned'[Len(returned')]

\* C33: the task description of a call holds the memory context as it was
\* before the call, and beginning the call writes nothing; the normal
\* return of a call leaves every key of its trigger.context at the given
\* value and every other key as it was; the exception path changes no
\* key; and no other step changes the memory context.
C33_ContextWrittenOnReturn ==
    [][/\ WebhookBegins =>
            /\ trigger'.task_description.memory_context = get_context(memory)
            /\ memory' = memory
       /\ ReturnsNormally =>
            /\ \A k \in DOMAIN trigger.context :
                  /\ k \in DOMAIN get_context(memory')
                  /\ get_context(memory')[k] = trigger.context[k]
            /\ \A k \in DOMAIN get_context(memory') \ DOMAIN trigger.context :
                  /\ k \in DOMAIN get_context(memory)
                  /\ get_context(memory')[k] = get_context(memory)[k]
       /\ ReturnsError => memory' = memory
       /\ get_context(memory') # get_context(memory) => ReturnsNormally]_vars

\* C33: a run is under way whose task description shows env = "prod", as
\* an earlier call left it, while its own context env = "dev" and
\* team = "ops" is not yet in the memory context.
C33_Witness ==
    /\ trigger # NoTrigger
    /\ node = "execute"
    /\ trigger.context = [env |-> "dev", team |-> "ops"]
    /\ trigger.task_description.memory_context = [env |-> "prod"]
    /\ get_context(memory) = [env |-> "prod"]

\* C35: the conversation table has one row for each call that has
\* returned, in the order of their returns and with the call's trigger_id,
\* and no row for a call whose run is still awaited.
C35_OneRecordPerCall ==
    /\ Len(history) = Len(returned)
    /\ \A i \in 1..Len(returned) : history[i].trigger_id = returned[i].trigger_id

\* C35: two calls with the same trigger_id have returned, one on the
\* exception path and one on the normal path, and each left one row.
C35_Witness ==
    /\ Len(returned) = 2
    /\ Len(history) = 2
    /\ returned[1].trigger_id = "t1"
    /\ returned[2].trigger_id = "t1"
    /\ "error" \in DOMAIN returned[1]
    /\ "result" \in DOMAIN returned[2]

====
